---- MODULE Spec2Model ----
(***************************************************************************)
(* A model of neo.io.tools.LazyList (src/neo/io/tools.py) and of           *)
(* neo.io.rhdio.RHDIO.read_segment / read_block (src/neo/io/rhdio.py).     *)
(***************************************************************************)
EXTENDS Integers, Sequences, FiniteSets, TLC

VARIABLES
    data,       \* LazyList._data of every LazyList object
    lazy,       \* LazyList._lazy of every LazyList object
    live,       \* the LazyList objects that have been constructed
    origin,     \* for the object made by a slice access: what it was sliced from
    io_calls,   \* the calls the IO's load_lazy_cascade received during the last operation
    last,       \* the last operation called on a LazyList, with its arguments
    ret,        \* what the last operation returned or raised
    file,       \* the RHD file of the RHDIO instance: its header and its sample data
    blk,        \* the Block the caller holds and may pass to read_segment
    result      \* the last read_segment / read_block call and what it returned or raised

lazyVars == <<data, lazy, live, origin, io_calls, last, ret>>
rhdVars == <<file, blk, result>>
vars == <<data, lazy, live, origin, io_calls, last, ret, file, blk, result>>

\* ------------------------------------------------------------------ bounds
MaxLen == 3
MaxDigIn == 2
MaxGroups == 2

\* ------------------------------------------------------------------ values
Min(a, b) == IF a < b THEN a ELSE b
Max(a, b) == IF a > b THEN a ELSE b

\* The keys a placeholder can hold: what load_lazy_cascade needs to load the object.
Keys == {"k1", "k2"}
\* An element that is not a Neo object: the information load_lazy_cascade needs.
Placeholder(k) == [neo |-> FALSE, key |-> k]
\* An element whose type is one of LazyList._neo_objects.
NeoObject(k) == [neo |-> TRUE, key |-> k]
\* What a caller puts into a list: placeholders, and a Neo object made elsewhere.
Inputs == {Placeholder(k) : k \in Keys} \cup {NeoObject("n0")}
NoItem == [neo |-> FALSE, key |-> "none"]

\* type(item) in self._neo_objects
IsNeoObject(item) == item.neo

\* The lazy parameter of a LazyList is whatever the constructor was given: a
\* boolean, or (from the slice branch of __getitem__) a list of items.
BoolVal(b) == [isList |-> FALSE, flag |-> b, items |-> <<>>]
ListVal(s) == [isList |-> TRUE, flag |-> FALSE, items |-> s]

\* io.load_lazy_cascade(item, lazy): the object the key stands for.
LoadLazyCascade(item, lz) == NeoObject(item.key)

\* ------------------------------------------------------------------ list
\* Python's list semantics, which LazyList delegates to through self._data.

\* The 1-based position of Python index i in a list of length n (0 when out of range).
Position(i, n) ==
    IF i >= 0 THEN (IF i < n THEN i + 1 ELSE 0)
    ELSE (IF i + n >= 0 THEN i + n + 1 ELSE 0)

\* The bound of a slice, clamped as list.__getitem__(slice) clamps it.
SliceBound(i, n) == IF i < 0 THEN Max(i + n, 0) ELSE Min(i, n)

\* list.__getitem__(slice(a, b)): a new list of the items in the range.
ListSlice(s, a, b) ==
    LET lo == SliceBound(a, Len(s))
        hi == SliceBound(b, Len(s))
    IN  IF lo < hi THEN SubSeq(s, lo + 1, hi) ELSE <<>>

ListInsert(s, index, value) ==
    LET p == SliceBound(index, Len(s))
    IN  SubSeq(s, 1, p) \o <<value>> \o SubSeq(s, p + 1, Len(s))

ListAppend(s, value) == Append(s, value)

ListReverse(s) == [j \in 1..Len(s) |-> s[Len(s) + 1 - j]]

ListExtend(s, values) == s \o values

ListDelete(s, p) == SubSeq(s, 1, p - 1) \o SubSeq(s, p + 1, Len(s))

\* The position list.remove(value) deletes: the first item equal to value (0 when none).
FirstIndex(s, value) ==
    IF \E j \in 1..Len(s) : s[j] = value
    THEN CHOOSE j \in 1..Len(s) : s[j] = value /\ \A h \in 1..(j - 1) : s[h] # value
    ELSE 0

\* ------------------------------------------------------------------ results
Returned(item) == [raised |-> "", kind |-> "item", item |-> item, obj |-> ""]
ReturnedList(o) == [raised |-> "", kind |-> "LazyList", item |-> NoItem, obj |-> o]
ReturnedNone == [raised |-> "", kind |-> "None", item |-> NoItem, obj |-> ""]
Raised(e) == [raised |-> e, kind |-> "", item |-> NoItem, obj |-> ""]

Call(op, o, index, value, values) ==
    [op |-> op, obj |-> o, index |-> index, stop |-> 0, value |-> value, values |-> values]
NoCall == Call("__init__", "L", 0, NoItem, <<>>)
NoOrigin == [src |-> "", start |-> 0, stop |-> 0]

\* ------------------------------------------------------------------ LazyList
\* LazyList.__init__(io, lazy, items)
LazyListInit(lz, items) == [data |-> items, lazy |-> lz]

\* self._data[index] = loaded
StoreLoadedSkipped(items, p, loaded) == items
StoreLoaded(items, p, loaded) == [items EXCEPT ![p] = loaded]

\* LazyList.__getitem__(index), index an integer
GetItem(o, index) ==
    LET p == Position(index, Len(data[o]))
    IN  /\ o \in live
        /\ last' = Call("__getitem__", o, index, NoItem, <<>>)
        /\ IF p = 0
           THEN /\ ret' = Raised("IndexError")
                /\ io_calls' = <<>>
                /\ UNCHANGED data
           ELSE LET item == data[o][p]
                IN  IF IsNeoObject(item)
                    THEN /\ ret' = Returned(item)
                         /\ io_calls' = <<>>
                         /\ UNCHANGED data
                    ELSE LET loaded == LoadLazyCascade(item, lazy[o])
                         IN  /\ io_calls' = <<[item |-> item, lazy |-> lazy[o]]>>
                             /\ data' = [data EXCEPT ![o] = StoreLoaded(data[o], p, loaded)]
                             /\ ret' = Returned(loaded)
        /\ UNCHANGED <<lazy, live, origin, rhdVars>>

\* The object the slice branch of __getitem__ constructs: LazyList(self._io, item)
SliceResult(lz, item) == LazyListInit(ListVal(item), <<>>)

\* LazyList.__getitem__(slice(a, b)); the caller binds the result to S
GetSlice(o, a, b) ==
    LET item == ListSlice(data[o], a, b)
        new == SliceResult(lazy[o], item)
    IN  /\ o \in live
        /\ last' = [Call("__getitem__slice", o, a, NoItem, <<>>) EXCEPT !.stop = b]
        /\ data' = [data EXCEPT !["S"] = new.data]
        /\ lazy' = [lazy EXCEPT !["S"] = new.lazy]
        /\ live' = live \cup {"S"}
        /\ origin' = [src |-> o, start |-> a, stop |-> b]
        /\ io_calls' = <<>>
        /\ ret' = ReturnedList("S")
        /\ UNCHANGED rhdVars

\* LazyList.__delitem__(index)
DelItem(o, index) ==
    LET p == Position(index, Len(data[o]))
    IN  /\ o \in live
        /\ last' = Call("__delitem__", o, index, NoItem, <<>>)
        /\ io_calls' = <<>>
        /\ IF p = 0
           THEN ret' = Raised("IndexError") /\ UNCHANGED data
           ELSE ret' = ReturnedNone /\ data' = [data EXCEPT ![o] = ListDelete(data[o], p)]
        /\ UNCHANGED <<lazy, live, origin, rhdVars>>

\* LazyList.__setitem__(index, value)
SetItem(o, index, value) ==
    LET p == Position(index, Len(data[o]))
    IN  /\ o \in live
        /\ last' = Call("__setitem__", o, index, value, <<>>)
        /\ io_calls' = <<>>
        /\ IF p = 0
           THEN ret' = Raised("IndexError") /\ UNCHANGED data
           ELSE ret' = ReturnedNone /\ data' = [data EXCEPT ![o] = [data[o] EXCEPT ![p] = value]]
        /\ UNCHANGED <<lazy, live, origin, rhdVars>>

\* LazyList.insert(index, value)
Insert(o, index, value) ==
    /\ o \in live
    /\ Len(data[o]) < MaxLen
    /\ last' = Call("insert", o, index, value, <<>>)
    /\ io_calls' = <<>>
    /\ data' = [data EXCEPT ![o] = ListInsert(data[o], index, value)]
    /\ ret' = ReturnedNone
    /\ UNCHANGED <<lazy, live, origin, rhdVars>>

\* LazyList.append(value)
AppendItem(o, value) ==
    /\ o \in live
    /\ Len(data[o]) < MaxLen
    /\ last' = Call("append", o, 0, value, <<>>)
    /\ io_calls' = <<>>
    /\ data' = [data EXCEPT ![o] = ListAppend(data[o], value)]
    /\ ret' = ReturnedNone
    /\ UNCHANGED <<lazy, live, origin, rhdVars>>

\* collections.abc.MutableSequence.reverse, which LazyList.reverse overrides: it
\* swaps through self[i], so every placeholder is loaded on the way.
ReverseThroughGetItem(o) ==
    LET n == Len(data[o])
        unresolved == SelectSeq(ListReverse(data[o]), LAMBDA x : ~IsNeoObject(x))
    IN  /\ o \in live
        /\ last' = Call("reverse", o, 0, NoItem, <<>>)
        /\ io_calls' = [j \in 1..Len(unresolved) |-> [item |-> unresolved[j], lazy |-> lazy[o]]]
        /\ data' = [data EXCEPT ![o] =
                      [j \in 1..n |-> IF IsNeoObject(data[o][n + 1 - j])
                                      THEN data[o][n + 1 - j]
                                      ELSE LoadLazyCascade(data[o][n + 1 - j], lazy[o])]]
        /\ ret' = ReturnedNone
        /\ UNCHANGED <<lazy, live, origin, rhdVars>>

\* LazyList.reverse()
Reverse(o) ==
    /\ o \in live
    /\ last' = Call("reverse", o, 0, NoItem, <<>>)
    /\ io_calls' = <<>>
    /\ data' = [data EXCEPT ![o] = ListReverse(data[o])]
    /\ ret' = ReturnedNone
    /\ UNCHANGED <<lazy, live, origin, rhdVars>>

\* LazyList.extend(values)
Extend(o, values) ==
    /\ o \in live
    /\ Len(data[o]) + Len(values) <= MaxLen
    /\ last' = Call("extend", o, 0, NoItem, values)
    /\ io_calls' = <<>>
    /\ data' = [data EXCEPT ![o] = ListExtend(data[o], values)]
    /\ ret' = ReturnedNone
    /\ UNCHANGED <<lazy, live, origin, rhdVars>>

\* LazyList.remove(value)
Remove(o, value) ==
    LET p == FirstIndex(data[o], value)
    IN  /\ o \in live
        /\ last' = Call("remove", o, 0, value, <<>>)
        /\ io_calls' = <<>>
        /\ IF p = 0
           THEN ret' = Raised("ValueError") /\ UNCHANGED data
           ELSE ret' = ReturnedNone /\ data' = [data EXCEPT ![o] = ListDelete(data[o], p)]
        /\ UNCHANGED <<lazy, live, origin, rhdVars>>

\* ------------------------------------------------------------------ RHD file
\* A dict key, as its words: "amplifier_sample_rate" is <<"amplifier", "sample_rate">>.
SampleRate == "sample_rate"

\* key.endswith("sample_rate")
EndsWithSampleRate(key) == Len(key) >= 1 /\ key[Len(key)] = SampleRate

\* header["frequency_parameters"], for a board running at the given rate
FrequencyParameters(rate) ==
    [k \in {<<"amplifier", SampleRate>>, <<"board_adc", SampleRate>>,
            <<"aux_input", SampleRate>>, <<"board_dig_in", SampleRate>>,
            <<"dsp", "enabled">>, <<"notch_filter", "frequency">>,
            <<SampleRate, "divider">>} |->
        CASE k = <<"aux_input", SampleRate>> -> rate \div 4
          [] k = <<"dsp", "enabled">> -> 1
          [] k = <<"notch_filter", "frequency">> -> 60
          [] k = <<SampleRate, "divider">> -> 4
          [] OTHER -> rate]

\* header["notes"]
NotesChoices ==
    {[k \in {<<"note1">>, <<"note2">>} |-> IF k = <<"note1">> THEN "first" ELSE ""],
     [k \in {<<"note1">>, <<"dsp", "enabled">>} |-> "text"]}

\* The channel descriptors of a group: the native_order of each channel.
NativeOrders(n) == [ii \in 1..n |-> 2 * ii + 1]
ChannelName(prefix, order) == <<prefix, order>>
ChannelNames(prefix, orders) == [ii \in 1..Len(orders) |-> ChannelName(prefix, orders[ii])]

\* The digital-input bit vectors tried: never set, one rising edge with the bit
\* staying set, two rising edges (the first at sample 0).
BitVectors == {<<0, 0, 0>>, <<0, 1, 1>>, <<1, 0, 1>>}

\* read_header.read_header(fid) for a file with the given channel counts
Header(notes, nadc, naux, ndig) ==
    [frequency_parameters |-> FrequencyParameters(4),
     notes |-> notes,
     amplifier_channels |-> NativeOrders(2),
     board_adc_channels |-> NativeOrders(nadc),
     aux_input_channels |-> NativeOrders(naux),
     board_dig_in_channels |-> NativeOrders(ndig),
     num_board_adc_channels |-> nadc,
     num_aux_input_channels |-> naux,
     num_board_dig_in_channels |-> ndig]

\* A file is its header and what load_intan_rhd_format.read_data gives for it;
\* for a corrupt file read_data raises RHDError and there is no data.
ValidFiles ==
    {[header |-> Header(notes, nadc, naux, Len(dig)),
      data |-> [frequency_parameters |-> FrequencyParameters(4),
                num_samples |-> 3,
                board_dig_in_data |-> dig],
      corrupt |-> FALSE] :
        notes \in NotesChoices, nadc \in 0..1, naux \in 0..1,
        dig \in UNION {[1..n -> BitVectors] : n \in 0..MaxDigIn}}
CorruptFiles ==
    {[header |-> Header(notes, nadc, naux, ndig),
      data |-> [frequency_parameters |-> FrequencyParameters(4),
                num_samples |-> 0,
                board_dig_in_data |-> <<>>],
      corrupt |-> TRUE] :
        notes \in NotesChoices, nadc \in 0..1, naux \in 0..1, ndig \in 0..MaxDigIn}
Files == ValidFiles \cup CorruptFiles

\* ------------------------------------------------------------------ neo.core objects
\* Segment(name=..., file_origin=...)
NewSegment == [annotations |-> <<>>, analogsignals |-> <<>>, events |-> <<>>, linked |-> FALSE]

\* Block(name=..., file_origin=...)
NewBlock == [channel_indexes |-> <<>>, segments |-> <<>>, links |-> {}]

\* block.create_many_to_one_relationship(force=True, recursive=True) and
\* block.create_many_to_many_relationship(): the back-references are rebuilt from
\* the block's children.
CreateRelationships(block) ==
    [block EXCEPT !.links = {block.channel_indexes[j].name : j \in 1..Len(block.channel_indexes)}]

\* ------------------------------------------------------------------ RHDIO.read_segment
\* The segment's annotations: the frequency parameters whose key does not end in
\* sample_rate, then all of the notes.
SegmentAnnotationsUnfiltered(header) ==
    LET fp == header.frequency_parameters
        notes == header.notes
    IN  [k \in DOMAIN fp \cup DOMAIN notes |-> IF k \in DOMAIN notes THEN notes[k] ELSE fp[k]]

SegmentAnnotations(header) ==
    LET fp == header.frequency_parameters
        notes == header.notes
        kept == {k \in DOMAIN fp : ~EndsWithSampleRate(k)}
    IN  [k \in kept \cup DOMAIN notes |-> IF k \in DOMAIN notes THEN notes[k] ELSE fp[k]]

\* The three analog groups, in the order read_segment handles them.
AmplifierGroup ==
    [channels |-> "amplifier_channels", rate |-> "amplifier", chx |-> "Amplifier",
     signal |-> "Amplifier", units |-> "microvolt"]
ADCGroup ==
    [channels |-> "board_adc_channels", rate |-> "board_adc", chx |-> "ADC",
     signal |-> "Board ADC", units |-> "volt"]
AuxGroup ==
    [channels |-> "aux_input_channels", rate |-> "aux_input", chx |-> "AuxData",
     signal |-> "AUX Input", units |-> "volt"]

\* data.pop(...).T when the samples were read, np.array([]) when lazy
SignalShape(rhd, nchannels, lz) == IF lz THEN <<0>> ELSE <<rhd.num_samples, nchannels>>

\* AnalogSignal(signals, name=..., units=..., t_start=0*pq.s, sampling_rate=...)
AnalogSignal(header, rhd, g, lz) ==
    [name |-> g.signal,
     units |-> g.units,
     t_start |-> 0,
     sampling_rate |-> header.frequency_parameters[<<g.rate, SampleRate>>],
     shape |-> SignalShape(rhd, Len(header[g.channels]), lz)]

\* ChannelIndex(name=..., index=channels, channel_names=channel_names, ...)
ChannelIndex(name, prefix, orders, signals) ==
    [name |-> name, index |-> orders, channel_names |-> ChannelNames(prefix, orders),
     analogsignals |-> signals]

\* One analog group: the signal goes to the segment, its ChannelIndex to the block,
\* and the block's relationships are rebuilt.
AddAnalogGroup(st, header, rhd, g, lz) ==
    LET sig == AnalogSignal(header, rhd, g, lz)
        chx == ChannelIndex(g.chx, g.rate, header[g.channels], <<sig.name>>)
    IN  [segment |-> [st.segment EXCEPT !.analogsignals = Append(@, sig)],
         block |-> CreateRelationships(
                      [st.block EXCEPT !.channel_indexes = Append(@, chx)])]

\* np.nonzero(digital_signal)[0]: the indices of the samples that are not zero
NonZero(bits) ==
    SelectSeq([j \in 1..Len(bits) |-> j - 1], LAMBDA i : bits[i + 1] # 0)

\* index / sampling_rate, in seconds, as the exact quotient num / den
Seconds(i, rate) == [num |-> i, den |-> rate]

\* times = np.nonzero(digital_signal)[0] / sampling_rate
EventTimes(bits, rate) ==
    LET nz == NonZero(bits) IN [k \in 1..Len(nz) |-> Seconds(nz[k], rate)]

\* if len(times) < 1: continue
KeepEventAlways(times) == TRUE
KeepEvent(times) == ~(Len(times) < 1)

\* Event(times=times*pq.s, name=..., channel_ids=channels[ii], ...)
Event(header, rhd, ii) ==
    LET rate == rhd.frequency_parameters[<<"board_dig_in", SampleRate>>]
        channels == header.board_dig_in_channels
    IN  [times |-> EventTimes(rhd.board_dig_in_data[ii], rate),
         name |-> <<"Digital Input Events", channels[ii]>>,
         channel_ids |-> channels[ii],
         channel_names |-> ChannelName("board_dig_in", channels[ii]),
         sampling_rate |-> rate]

\* The loop over data["board_dig_in_data"]: the events appended to the segment.
DigitalEvents(header, rhd) ==
    SelectSeq([ii \in 1..Len(rhd.board_dig_in_data) |-> Event(header, rhd, ii)],
              LAMBDA ea : KeepEvent(ea.times))

\* The digital-input branch with storeDIG set and the data loaded.
AddDigitalGroup(st, header, rhd) ==
    LET channels == header.board_dig_in_channels
        chx == ChannelIndex("EventData", "board_dig_in", channels, <<>>)
    IN  [segment |-> [st.segment EXCEPT !.events = @ \o DigitalEvents(header, rhd),
                                        !.linked = TRUE],
         block |-> CreateRelationships(
                      [st.block EXCEPT !.channel_indexes = Append(@, chx)])]

Return(st) == [raised |-> "", segment |-> st.segment, block |-> st.block]
Raise(e, block) == [raised |-> e, segment |-> NewSegment, block |-> block]

\* read_segment(lazy, cascade, block, storeDIG) on file f. hasBlock is FALSE when
\* block is None. Gives what the call returns or raises, and the block afterwards.
ReadSegmentRun(f, lz, cascade, block, hasBlock, storeDIG) ==
    LET header == f.header
        st0 == [segment |-> [NewSegment EXCEPT !.annotations = SegmentAnnotations(header)],
                block |-> block]
        st1 == AddAnalogGroup(st0, header, f.data, AmplifierGroup, lz)
        st2 == IF header.num_board_adc_channels > 0
               THEN AddAnalogGroup(st1, header, f.data, ADCGroup, lz) ELSE st1
        st3 == IF header.num_aux_input_channels > 0
               THEN AddAnalogGroup(st2, header, f.data, AuxGroup, lz) ELSE st2
    IN  IF cascade = FALSE THEN Return(st0)
        ELSE IF lz = FALSE /\ f.corrupt THEN Raise("RHDError", block)
        ELSE IF ~hasBlock THEN Raise("AttributeError", block)
        ELSE IF header.num_board_dig_in_channels > 0 /\ storeDIG
             THEN IF lz THEN Raise("UnboundLocalError", st3.block)
                  ELSE Return(AddDigitalGroup(st3, header, f.data))
        ELSE IF lz THEN Raise("UnboundLocalError", st3.block)
        ELSE Return(st3)

ReadCall(op, lz, cascade, hasBlock, storeDIG) ==
    [op |-> op, lazy |-> lz, cascade |-> cascade, block |-> hasBlock, storeDIG |-> storeDIG]
NoResult ==
    [call |-> ReadCall("none", FALSE, FALSE, FALSE, FALSE), raised |-> "",
     segment |-> NewSegment, block |-> NewBlock]

\* RHDIO.read_segment(lazy, cascade, block, storeDIG); block is None or the
\* caller's Block
ReadSegment(lz, cascade, hasBlock, storeDIG) ==
    LET out == ReadSegmentRun(file, lz, cascade, IF hasBlock THEN blk ELSE NewBlock,
                              hasBlock, storeDIG)
    IN  /\ hasBlock /\ cascade => Len(blk.channel_indexes) < MaxGroups
        /\ result' = [call |-> ReadCall("read_segment", lz, cascade, hasBlock, storeDIG),
                      raised |-> out.raised, segment |-> out.segment, block |-> NewBlock]
        /\ blk' = IF hasBlock THEN out.block ELSE blk
        /\ UNCHANGED <<file, lazyVars>>

\* RHDIO.read_block(lazy, cascade, storeDIG)
ReadBlock(lz, cascade, storeDIG) ==
    LET out == ReadSegmentRun(file, lz, cascade, NewBlock, TRUE, storeDIG)
        bl == [out.block EXCEPT !.segments = Append(@, out.segment),
                               !.links = @ \cup {"segment"}]
    IN  /\ result' = [call |-> ReadCall("read_block", lz, cascade, TRUE, storeDIG),
                      raised |-> out.raised,
                      segment |-> out.segment,
                      block |-> IF out.raised = "" THEN bl ELSE NewBlock]
        /\ UNCHANGED <<file, blk, lazyVars>>

\* ------------------------------------------------------------------ inputs
Indexes == (0 - MaxLen)..MaxLen
ItemLists == UNION {[1..n -> Inputs] : n \in 0..MaxLen}
ExtendLists == {<<>>, <<Placeholder("k1")>>, <<Placeholder("k2"), NeoObject("n0")>>}
LazyFlags == {BoolVal(TRUE), ListVal(<<Placeholder("k1")>>)}

\* L = LazyList(io, lazy, items)
InitLazy ==
    /\ \E items \in ItemLists, lz \in LazyFlags :
          /\ data = [o \in {"L", "S"} |-> IF o = "L" THEN LazyListInit(lz, items).data ELSE <<>>]
          /\ lazy = [o \in {"L", "S"} |-> IF o = "L" THEN LazyListInit(lz, items).lazy ELSE BoolVal(FALSE)]
    /\ live = {"L"}
    /\ origin = NoOrigin
    /\ io_calls = <<>>
    /\ last = NoCall
    /\ ret = ReturnedNone
    /\ file = CHOOSE f \in Files : TRUE
    /\ blk = NewBlock
    /\ result = NoResult

NextLazy ==
    \/ \E i \in Indexes : GetItem("L", i)
    \/ \E i \in Indexes : DelItem("L", i)
    \/ \E i \in Indexes, v \in Inputs : SetItem("L", i, v)
    \/ \E i \in Indexes, v \in Inputs : Insert("L", i, v)
    \/ \E v \in Inputs : AppendItem("L", v)
    \/ Reverse("L")
    \/ \E vs \in ExtendLists : Extend("L", vs)
    \/ \E v \in Inputs : Remove("L", v)

SpecLazy == InitLazy /\ [][NextLazy]_vars

\* S = L[a:b], then indexed accesses to L and to S
SliceStarts == {-1, 0, 1}
SliceStops == {-1, 2, MaxLen + 1}

NextSlice ==
    \/ \E a \in SliceStarts, b \in SliceStops : GetSlice("L", a, b)
    \/ \E o \in {"L", "S"}, i \in Indexes : GetItem(o, i)

SpecSlice == InitLazy /\ [][NextSlice]_vars

\* io = RHDIO(filename); bl = Block()
InitRHD ==
    /\ file \in Files
    /\ blk = NewBlock
    /\ result = NoResult
    /\ data = [o \in {"L", "S"} |-> <<>>]
    /\ lazy = [o \in {"L", "S"} |-> BoolVal(FALSE)]
    /\ live = {"L"}
    /\ origin = NoOrigin
    /\ io_calls = <<>>
    /\ last = NoCall
    /\ ret = ReturnedNone

NextRHD ==
    \/ \E lz \in BOOLEAN, cascade \in BOOLEAN, hasBlock \in BOOLEAN, storeDIG \in BOOLEAN :
          ReadSegment(lz, cascade, hasBlock, storeDIG)
    \/ \E lz \in BOOLEAN, cascade \in BOOLEAN, storeDIG \in BOOLEAN :
          ReadBlock(lz, cascade, storeDIG)

SpecRHD == InitRHD /\ [][NextRHD]_vars

\* ------------------------------------------------------------------ LazyList claims

\* C1: an indexed access (positive or negative index) to a placeholder calls
\* load_lazy_cascade once, with the stored key and the list's lazy flag, stores the
\* result in that slot and returns it; an access to a resolved element returns it
\* without any call; so no slot is ever loaded twice, whatever mutations interleave.
C1_LoadAtMostOncePerSlot ==
    [][last'.op = "__getitem__" /\ ret'.raised = "" =>
        LET o == last'.obj
            p == Position(last'.index, Len(data[o]))
            item == data[o][p]
        IN  /\ p # 0
            /\ IF IsNeoObject(item)
               THEN /\ io_calls' = <<>>
                    /\ ret'.item = item
                    /\ data' = data
               ELSE /\ io_calls' = <<[item |-> item, lazy |-> lazy[o]]>>
                    /\ IsNeoObject(ret'.item)
                    /\ ret'.item.key = item.key
                    /\ Len(data'[o]) = Len(data[o])
                    /\ \A j \in 1..Len(data[o]) :
                          data'[o][j] = IF j = p THEN ret'.item ELSE data[o][j]
            /\ IsNeoObject(data'[o][p])]_vars

\* C1 witness: a slot loaded from placeholder k1 is accessed again, by a negative
\* index, and comes back without a call.
C1_Witness ==
    /\ last.op = "__getitem__"
    /\ last.index < 0
    /\ ret.raised = ""
    /\ ret.item = NeoObject("k1")
    /\ io_calls = <<>>

MutationOps == {"__delitem__", "__setitem__", "insert", "append", "reverse", "extend", "remove"}

\* Where list.insert(index, value) puts the value in a list of length n.
InsertPosition(index, n) ==
    IF index >= n THEN n + 1
    ELSE IF index >= 0 THEN index + 1
    ELSE IF index + n >= 0 THEN index + n + 1
    ELSE 1

\* s with the item at position p left out.
Without(s, p) == [j \in 1..(Len(s) - 1) |-> IF j < p THEN s[j] ELSE s[j + 1]]

\* C8: insert, append, remove, reverse, extend, item assignment and item deletion
\* change the stored sequence as the operation on a plain list does, make no call to
\* load_lazy_cascade, and resolve no placeholder.
C8_MutationsAsPlainList ==
    [][last'.op \in MutationOps =>
        LET c == last'
            s == data[c.obj]
            t == data'[c.obj]
            n == Len(s)
            p == Position(c.index, n)
        IN  /\ io_calls' = <<>>
            /\ \A j \in 1..Len(t) : IsNeoObject(t[j]) =>
                  \/ \E h \in 1..n : s[h] = t[j]
                  \/ t[j] = c.value
                  \/ \E h \in 1..Len(c.values) : c.values[h] = t[j]
            /\ CASE c.op = "append" ->
                      /\ Len(t) = n + 1
                      /\ t[n + 1] = c.value
                      /\ \A j \in 1..n : t[j] = s[j]
                 [] c.op = "extend" ->
                      /\ Len(t) = n + Len(c.values)
                      /\ \A j \in 1..Len(t) : t[j] = IF j <= n THEN s[j] ELSE c.values[j - n]
                 [] c.op = "reverse" ->
                      /\ Len(t) = n
                      /\ \A j \in 1..n : t[j] = s[n + 1 - j]
                 [] c.op = "insert" ->
                      /\ Len(t) = n + 1
                      /\ t[InsertPosition(c.index, n)] = c.value
                      /\ Without(t, InsertPosition(c.index, n)) = s
                 [] c.op = "remove" ->
                      IF \E j \in 1..n : s[j] = c.value
                      THEN /\ ret'.raised = ""
                           /\ \E q \in 1..n : /\ s[q] = c.value
                                              /\ \A h \in 1..(q - 1) : s[h] # c.value
                                              /\ t = Without(s, q)
                      ELSE ret'.raised = "ValueError" /\ t = s
                 [] c.op = "__delitem__" ->
                      IF p = 0 THEN ret'.raised = "IndexError" /\ t = s
                      ELSE ret'.raised = "" /\ t = Without(s, p)
                 [] c.op = "__setitem__" ->
                      IF p = 0 THEN ret'.raised = "IndexError" /\ t = s
                      ELSE /\ ret'.raised = ""
                           /\ Len(t) = n
                           /\ \A j \in 1..n : t[j] = IF j = p THEN c.value ELSE s[j]]_vars

\* C8 witness: a list holding an object loaded earlier and a placeholder has been
\* reversed, and the placeholder is still a placeholder.
C8_Witness ==
    /\ last.op = "reverse"
    /\ Len(data["L"]) = 3
    /\ data["L"][1] = Placeholder("k2")
    /\ data["L"][3] = NeoObject("k1")
    /\ io_calls = <<>>

\* C2: L[a:b] is a new LazyList holding the elements of L in the range, in order,
\* with L's laziness flag, and the slice access loads nothing.
C2_SliceIsLazyListOverRange ==
    last.op = "__getitem__slice" /\ last.obj = "L" =>
        LET s == data["L"]
            lo == SliceBound(last.index, Len(s))
            hi == SliceBound(last.stop, Len(s))
        IN  /\ ret = ReturnedList("S")
            /\ Len(data["S"]) = Max(hi - lo, 0)
            /\ \A j \in 1..Len(data["S"]) : data["S"][j] = s[lo + j]
            /\ lazy["S"] = lazy["L"]
            /\ io_calls = <<>>

\* C5: with S = L[a:b] over a non-empty range, S[0] returns the resolved object of
\* L's slot a, and that object is what L's slot holds.
C5_SliceAliasesOriginal ==
    /\ last.op = "__getitem__"
    /\ last.obj = "S"
    /\ last.index = 0
    /\ origin.src = "L"
    /\ SliceBound(origin.start, Len(data["L"])) < SliceBound(origin.stop, Len(data["L"]))
    => /\ ret.raised = ""
       /\ IsNeoObject(ret.item)
       /\ data["L"][SliceBound(origin.start, Len(data["L"])) + 1] = ret.item

\* ------------------------------------------------------------------ RHDIO claims
AnalogPayloadsEmpty(seg) ==
    \A j \in 1..Len(seg.analogsignals) : seg.analogsignals[j].shape = <<0>>

\* C3: read_segment / read_block called with lazy and cascade set on a valid file,
\* with a Block to fill, returns normally and every analog signal of the returned
\* segment has an empty payload.
C3_LazyCascadeReturns ==
    /\ result.call.op \in {"read_segment", "read_block"}
    /\ result.call.lazy
    /\ result.call.cascade
    /\ result.call.block
    /\ ~file.corrupt
    => /\ result.raised = ""
       /\ Len(result.segment.analogsignals) >= 1
       /\ AnalogPayloadsEmpty(result.segment)

\* The sample indices of a bit vector that are rising edges: the bit is 1 and the
\* sample is the first one or the bit before it is 0.
RisingEdges(bits) ==
    {i \in 0..(Len(bits) - 1) : bits[i + 1] = 1 /\ (i = 0 \/ bits[i] = 0)}

\* The 1-based position in the header of the digital-input channel an event is for.
ChannelOf(ea) ==
    CHOOSE ii \in 1..Len(file.header.board_dig_in_channels) :
        file.header.board_dig_in_channels[ii] = ea.channel_ids

\* num/den seconds is sample index i at the digital sampling rate
IsSampleTime(t, i) ==
    t.num * file.data.frequency_parameters[<<"board_dig_in", SampleRate>>] = i * t.den

Before(t, u) == t.num * u.den < u.num * t.den

\* C4: the timestamps of every event object are exactly the rising edges of its
\* channel, over the digital sampling rate, strictly increasing.
C4_TimestampsAreRisingEdges ==
    result.raised = "" =>
        \A k \in 1..Len(result.segment.events) :
            LET ea == result.segment.events[k]
                bits == file.data.board_dig_in_data[ChannelOf(ea)]
            IN  /\ \A j \in 1..Len(ea.times) :
                      \E i \in RisingEdges(bits) : IsSampleTime(ea.times[j], i)
                /\ \A i \in RisingEdges(bits) :
                      Cardinality({j \in 1..Len(ea.times) : IsSampleTime(ea.times[j], i)}) = 1
                /\ \A j \in 1..(Len(ea.times) - 1) : Before(ea.times[j], ea.times[j + 1])

\* The annotations the header stands for: every note, and every frequency parameter
\* whose key does not end in sample_rate.
HasHeaderAnnotations(seg) ==
    LET fp == file.header.frequency_parameters
        notes == file.header.notes
        ann == seg.annotations
    IN  /\ \A k \in DOMAIN notes : k \in DOMAIN ann /\ ann[k] = notes[k]
        /\ \A k \in DOMAIN fp :
              IF EndsWithSampleRate(k) THEN k \notin DOMAIN ann \/ k \in DOMAIN notes
              ELSE k \in DOMAIN ann /\ (k \notin DOMAIN notes => ann[k] = fp[k])
        /\ \A k \in DOMAIN ann : k \in DOMAIN notes \/ k \in DOMAIN fp

\* C6: read_segment with cascade false returns a segment with the header's
\* annotations, the same as the segment a cascade read of the file returned, with no
\* analog signal and no event, and adds no channel group to the supplied block.
C6_CascadeFalseIsAnnotationsOnly ==
    [][result'.call.op = "read_segment" /\ ~result'.call.cascade =>
        /\ result'.raised = ""
        /\ HasHeaderAnnotations(result'.segment)
        /\ result'.segment.analogsignals = <<>>
        /\ result'.segment.events = <<>>
        /\ blk' = blk
        /\ (result.call.op # "none" /\ result.call.cascade /\ result.raised = "" =>
               result'.segment.annotations = result.segment.annotations)]_vars

\* C6 witness: a cascade read filled the caller's block and returned, and then a
\* read with cascade false on the same block returned annotations.
C6_Witness ==
    /\ result.call.op = "read_segment"
    /\ ~result.call.cascade
    /\ result.call.block
    /\ result.raised = ""
    /\ <<"note1">> \in DOMAIN result.segment.annotations
    /\ <<"notch_filter", "frequency">> \in DOMAIN result.segment.annotations
    /\ Len(blk.channel_indexes) >= 2
    /\ blk.channel_indexes[Len(blk.channel_indexes)].name = "EventData"

\* C7: a call that raises leaves the Block the caller passed in as it was.
C7_FailureLeavesBlockUntouched ==
    [][result'.raised # "" => blk' = blk]_vars

\* The digital-input channels, by position, that have at least one set sample.
SetChannels ==
    {ii \in 1..Len(file.data.board_dig_in_data) :
        \E j \in 1..Len(file.data.board_dig_in_data[ii]) : file.data.board_dig_in_data[ii][j] # 0}

\* The events of the segment are one per channel with a set sample, in channel order.
OneEventPerSetChannel(seg) ==
    /\ Len(seg.events) = Cardinality(SetChannels)
    /\ \A k \in 1..Len(seg.events) :
          /\ ChannelOf(seg.events[k]) \in SetChannels
          /\ Len(seg.events[k].times) >= 1
    /\ \A k \in 1..(Len(seg.events) - 1) : ChannelOf(seg.events[k]) < ChannelOf(seg.events[k + 1])

EventDataGroups(block) ==
    Cardinality({j \in 1..Len(block.channel_indexes) : block.channel_indexes[j].name = "EventData"})

EagerCascadeWithDigIn(r) ==
    /\ r.call.op \in {"read_segment", "read_block"}
    /\ r.raised = ""
    /\ ~r.call.lazy
    /\ r.call.cascade
    /\ file.header.num_board_dig_in_channels > 0

\* C9 as claimed: every eager cascade read of a file with digital-input channels
\* yields one event per channel with a set sample, none for an all-zero channel, and
\* one EventData channel group.
C9_EventsForEveryEagerRead ==
    EagerCascadeWithDigIn(result) =>
        /\ OneEventPerSetChannel(result.segment)
        /\ result.call.op = "read_block" => EventDataGroups(result.block) = 1

\* C9 as amended: with storeDIG true, an eager cascade read of a file with
\* digital-input channels yields one event per channel with a set sample, in channel
\* order, none for an all-zero channel, and appends the EventData channel group to the
\* block exactly once.
C9_EventsWhenStoreDIG ==
    [][EagerCascadeWithDigIn(result') /\ result'.call.storeDIG =>
        /\ OneEventPerSetChannel(result'.segment)
        /\ result'.call.op = "read_block" => EventDataGroups(result'.block) = 1
        /\ result'.call.op = "read_segment" =>
              /\ EventDataGroups(blk') = EventDataGroups(blk) + 1
              /\ blk'.channel_indexes[Len(blk'.channel_indexes)].name = "EventData"]_vars

\* C9 witness: an eager read_block with storeDIG of a file whose first digital-input
\* channel is all zero and whose second is not returned one event, for the second.
C9_Witness ==
    /\ EagerCascadeWithDigIn(result)
    /\ result.call.storeDIG
    /\ result.call.op = "read_block"
    /\ Len(file.data.board_dig_in_data) = 2
    /\ file.data.board_dig_in_data[1] = <<0, 0, 0>>
    /\ Len(result.segment.events) = 1
    /\ result.segment.events[1].channel_ids = file.header.board_dig_in_channels[2]
    /\ EventDataGroups(result.block) = 1

\* The names of the analog signals a file yields: Amplifier, then Board ADC and
\* AUX Input when the header declares channels for them.
ExpectedSignalNames ==
    <<"Amplifier">>
    \o (IF file.header.num_board_adc_channels > 0 THEN <<"Board ADC">> ELSE <<>>)
    \o (IF file.header.num_aux_input_channels > 0 THEN <<"AUX Input">> ELSE <<>>)

\* C10: read_segment with cascade true and lazy false on a valid file returns a
\* Segment, whether or not a block is supplied, holding the analog signals of the
\* present groups in order.
C10_ReadSegmentStandsAlone ==
    /\ result.call.op = "read_segment"
    /\ result.call.cascade
    /\ ~result.call.lazy
    /\ ~file.corrupt
    => /\ result.raised = ""
       /\ [j \in 1..Len(result.segment.analogsignals) |-> result.segment.analogsignals[j].name]
             = ExpectedSignalNames

====
